---- MODULE Spec2Model ----
(***************************************************************************)
(* nuri (NGINX Unit Rough Interface): the sidecar data step hidden in the  *)
(* routes of Unit's configuration, the JSON search/replace transform and   *)
(* the disable / re-enable commands built on them                          *)
(* (src/src/atmfjstc/nuri/__init__.py).                                    *)
(*                                                                         *)
(* JSON values are records with one field that names the Python type:      *)
(*   [str |-> characters]  [int |-> n]  [none |-> TRUE]                    *)
(*   [list |-> <<values>>] [dict |-> <<[k |-> characters, v |-> value]>>]  *)
(* A dict keeps its keys in insertion order, as a Python dict does.  A     *)
(* string is the sequence of its characters, so that startswith, slicing,  *)
(* json and base64 are computed on it.  The strings of the model are       *)
(* printable ASCII without the quote and the backslash, the numbers are    *)
(* naturals; booleans and floats are left out.                             *)
(***************************************************************************)
EXTENDS Integers, Sequences, FiniteSets, TLC

\* How many operations one run performs.
MaxCommands == 3
MaxStores == 3

------------------------------------------------------------------------------
\* Text

\* The printable ASCII characters, code 32 first (the grave accent, which no
\* string of the model holds, is spelled out).
AsciiTable ==
  << " ", "!", "\"", "#", "$", "%", "&", "'", "(", ")", "*", "+", ",", "-", ".", "/",
     "0", "1", "2", "3", "4", "5", "6", "7", "8", "9", ":", ";", "<", "=", ">", "?",
     "@", "A", "B", "C", "D", "E", "F", "G", "H", "I", "J", "K", "L", "M", "N", "O",
     "P", "Q", "R", "S", "T", "U", "V", "W", "X", "Y", "Z", "[", "\\", "]", "^", "_",
     "(grave)", "a", "b", "c", "d", "e", "f", "g", "h", "i", "j", "k", "l", "m", "n", "o",
     "p", "q", "r", "s", "t", "u", "v", "w", "x", "y", "z", "{", "|", "}", "~" >>

\* str.encode('ascii') and bytes.decode('ascii'), one character at a time.
Ord(c) == 31 + (CHOOSE i \in 1..Len(AsciiTable) : AsciiTable[i] = c)
Chr(b) == AsciiTable[b - 31]
IsPrintable(b) == b >= 32 /\ b <= 126
encode_ascii(s) == [i \in 1..Len(s) |-> Ord(s[i])]
decode_ascii(bs) == [i \in 1..Len(bs) |-> Chr(bs[i])]

\* str.startswith and the slice s[n:].
startswith(s, prefix) ==
  /\ Len(s) >= Len(prefix)
  /\ SubSeq(s, 1, Len(prefix)) = prefix
SliceFrom(s, n) == SubSeq(s, n + 1, Len(s))

------------------------------------------------------------------------------
\* JSON values

None == [none |-> TRUE]
Str(s) == [str |-> s]
Num(n) == [int |-> n]
List(items) == [list |-> items]
Dict(pairs) == [dict |-> pairs]
KV(key, value) == [k |-> key, v |-> value]

IsNone(x) == "none" \in DOMAIN x
IsStr(x) == "str" \in DOMAIN x
IsInt(x) == "int" \in DOMAIN x
IsList(x) == "list" \in DOMAIN x
IsDict(x) == "dict" \in DOMAIN x

\* The keys of a dict, in order, and the position of a key (0: absent).
Keys(d) == [i \in 1..Len(d.dict) |-> d.dict[i].k]
KeySet(d) == {d.dict[i].k : i \in 1..Len(d.dict)}
IndexOf(d, key) ==
  IF \E i \in 1..Len(d.dict) : d.dict[i].k = key
  THEN CHOOSE i \in 1..Len(d.dict) : d.dict[i].k = key
  ELSE 0

\* key in d, d.get(key, default), d[key] = value, d.pop(key, None) (what is left)
Has(d, key) == IndexOf(d, key) # 0
Get(d, key, default) ==
  IF Has(d, key) THEN d.dict[IndexOf(d, key)].v ELSE default
SetItem(d, key, value) ==
  IF Has(d, key)
  THEN Dict([d.dict EXCEPT ![IndexOf(d, key)] = KV(key, value)])
  ELSE Dict(Append(d.dict, KV(key, value)))
Without(d, key) ==
  IF Has(d, key)
  THEN Dict(SubSeq(d.dict, 1, IndexOf(d, key) - 1)
            \o SubSeq(d.dict, IndexOf(d, key) + 1, Len(d.dict)))
  ELSE d

\* dict(pairs): a key given twice keeps its first place and its last value.
RECURSIVE FromPairs(_)
FromPairs(pairs) ==
  IF pairs = <<>> THEN Dict(<<>>)
  ELSE SetItem(FromPairs(SubSeq(pairs, 1, Len(pairs) - 1)),
               pairs[Len(pairs)].k, pairs[Len(pairs)].v)

\* list.pop(index) (what is left), list[index] = value, list.insert(0, value)
PopAt(items, index) ==
  SubSeq(items, 1, index - 1) \o SubSeq(items, index + 1, Len(items))
ReplaceAt(items, index, value) == [items EXCEPT ![index] = value]
InsertFirst(items, value) == <<value>> \o items

\* Python's == on JSON values: dicts compare without regard to key order.
RECURSIVE DeepEq(_, _)
DeepEq(x, y) ==
  IF IsDict(x) /\ IsDict(y)
  THEN /\ Len(x.dict) = Len(y.dict)
       /\ KeySet(x) = KeySet(y)
       /\ \A i \in 1..Len(x.dict) :
            DeepEq(x.dict[i].v, Get(y, x.dict[i].k, None))
  ELSE IF IsList(x) /\ IsList(y)
  THEN /\ Len(x.list) = Len(y.list)
       /\ \A i \in 1..Len(x.list) : DeepEq(x.list[i], y.list[i])
  ELSE x = y

------------------------------------------------------------------------------
\* json.dumps(value, ensure_ascii=True)

RECURSIVE Digits(_)
Digits(n) ==
  IF n < 10 THEN <<Chr(48 + n)>>
  ELSE Digits(n \div 10) \o <<Chr(48 + (n % 10))>>

RECURSIVE json_dumps(_)
RECURSIVE DumpItems(_)
RECURSIVE DumpPairs(_)
DumpItems(items) ==
  IF items = <<>> THEN <<>>
  ELSE json_dumps(Head(items))
       \o (IF Len(items) > 1 THEN <<",", " ">> ELSE <<>>)
       \o DumpItems(Tail(items))
DumpPairs(pairs) ==
  IF pairs = <<>> THEN <<>>
  ELSE <<"\"">> \o Head(pairs).k \o <<"\"", ":", " ">> \o json_dumps(Head(pairs).v)
       \o (IF Len(pairs) > 1 THEN <<",", " ">> ELSE <<>>)
       \o DumpPairs(Tail(pairs))
json_dumps(x) ==
  IF IsNone(x) THEN <<"n", "u", "l", "l">>
  ELSE IF IsInt(x) THEN Digits(x.int)
  ELSE IF IsStr(x) THEN <<"\"">> \o x.str \o <<"\"">>
  ELSE IF IsList(x) THEN <<"[">> \o DumpItems(x.list) \o <<"]">>
  ELSE <<"{">> \o DumpPairs(x.dict) \o <<"}">>

------------------------------------------------------------------------------
\* json.loads(bytes).  A result is [value |-> v] or [raised |-> exception].

Raise(exception) == [raised |-> exception]
Return(v) == [value |-> v]
Raised(r) == "raised" \in DOMAIN r

\* One step of the parser: [ok, val, pos], pos the index after what was read.
Parsed(v, p) == [ok |-> TRUE, val |-> v, pos |-> p]
NoParse == [ok |-> FALSE, val |-> None, pos |-> 0]

IsWs(c) == c = " "
IsDigit(c) == Ord(c) >= 48 /\ Ord(c) <= 57

RECURSIVE SkipWs(_, _)
SkipWs(s, i) == IF i <= Len(s) /\ IsWs(s[i]) THEN SkipWs(s, i + 1) ELSE i

At(s, i, c) == i <= Len(s) /\ s[i] = c

\* The closing quote of the string that starts after position i - 1 (0: none).
RECURSIVE CloseQuote(_, _)
CloseQuote(s, i) ==
  IF i > Len(s) \/ s[i] = "\\" THEN 0
  ELSE IF s[i] = "\"" THEN i
  ELSE CloseQuote(s, i + 1)

ParseString(s, i) ==
  IF ~At(s, i, "\"") THEN NoParse
  ELSE LET j == CloseQuote(s, i + 1)
       IN IF j = 0 THEN NoParse ELSE Parsed(SubSeq(s, i + 1, j - 1), j + 1)

RECURSIVE DigitsEnd(_, _)
DigitsEnd(s, i) == IF i <= Len(s) /\ IsDigit(s[i]) THEN DigitsEnd(s, i + 1) ELSE i

RECURSIVE NumberOf(_)
NumberOf(ds) ==
  IF ds = <<>> THEN 0
  ELSE 10 * NumberOf(SubSeq(ds, 1, Len(ds) - 1)) + (Ord(ds[Len(ds)]) - 48)

\* An integer: 0, or a digit 1-9 and more digits ("01" reads 0 and leaves 1).
ParseNumber(s, i) ==
  IF At(s, i, "0") THEN Parsed(Num(0), i + 1)
  ELSE LET j == DigitsEnd(s, i)
       IN IF j = i THEN NoParse ELSE Parsed(Num(NumberOf(SubSeq(s, i, j - 1))), j)

RECURSIVE ParseValue(_, _)
RECURSIVE ParseMembers(_, _, _)
RECURSIVE ParseElements(_, _, _)

\* After "{" or ",": a key, a colon, a value, then "," or "}".
ParseMembers(s, i, acc) ==
  LET key == ParseString(s, i)
  IN IF ~key.ok THEN NoParse
     ELSE LET c == SkipWs(s, key.pos)
          IN IF ~At(s, c, ":") THEN NoParse
             ELSE LET val == ParseValue(s, SkipWs(s, c + 1))
                  IN IF ~val.ok THEN NoParse
                     ELSE LET e == SkipWs(s, val.pos)
                              got == SetItem(acc, key.val, val.val)
                          IN IF At(s, e, "}") THEN Parsed(got, e + 1)
                             ELSE IF At(s, e, ",")
                             THEN ParseMembers(s, SkipWs(s, e + 1), got)
                             ELSE NoParse

ParseElements(s, i, acc) ==
  LET val == ParseValue(s, i)
  IN IF ~val.ok THEN NoParse
     ELSE LET e == SkipWs(s, val.pos)
              got == Append(acc, val.val)
          IN IF At(s, e, "]") THEN Parsed(List(got), e + 1)
             ELSE IF At(s, e, ",") THEN ParseElements(s, SkipWs(s, e + 1), got)
             ELSE NoParse

ParseValue(s, i) ==
  IF At(s, i, "\"")
  THEN LET str == ParseString(s, i)
       IN IF str.ok THEN Parsed(Str(str.val), str.pos) ELSE NoParse
  ELSE IF At(s, i, "{")
  THEN LET j == SkipWs(s, i + 1)
       IN IF At(s, j, "}") THEN Parsed(Dict(<<>>), j + 1)
          ELSE ParseMembers(s, j, Dict(<<>>))
  ELSE IF At(s, i, "[")
  THEN LET j == SkipWs(s, i + 1)
       IN IF At(s, j, "]") THEN Parsed(List(<<>>), j + 1)
          ELSE ParseElements(s, j, <<>>)
  ELSE IF i + 3 <= Len(s) /\ SubSeq(s, i, i + 3) = <<"n", "u", "l", "l">>
  THEN Parsed(None, i + 4)
  ELSE ParseNumber(s, i)

\* json.loads of bytes: the bytes are decoded, one value is read, and nothing
\* but whitespace may follow it.  The text of the model is ASCII: a byte above
\* 127 ends the decoding, a control byte the parse.
json_loads(bs) ==
  IF \E i \in 1..Len(bs) : bs[i] >= 128 THEN Raise("UnicodeDecodeError")
  ELSE IF \E i \in 1..Len(bs) : ~IsPrintable(bs[i]) THEN Raise("JSONDecodeError")
  ELSE LET s == decode_ascii(bs)
           val == ParseValue(s, SkipWs(s, 1))
       IN IF val.ok /\ SkipWs(s, val.pos) = Len(s) + 1
          THEN Return(val.val)
          ELSE Raise("JSONDecodeError")

------------------------------------------------------------------------------
\* base64.urlsafe_b64encode and base64.urlsafe_b64decode

B64Alphabet ==
  << "A", "B", "C", "D", "E", "F", "G", "H", "I", "J", "K", "L", "M", "N", "O", "P",
     "Q", "R", "S", "T", "U", "V", "W", "X", "Y", "Z", "a", "b", "c", "d", "e", "f",
     "g", "h", "i", "j", "k", "l", "m", "n", "o", "p", "q", "r", "s", "t", "u", "v",
     "w", "x", "y", "z", "0", "1", "2", "3", "4", "5", "6", "7", "8", "9", "-", "_" >>

B64Char(sextet) == B64Alphabet[sextet + 1]

\* Three bytes make four characters; a last group of one or two bytes is padded
\* with "=".  Byte(bs, i) is 0 past the end.
Byte(bs, i) == IF i <= Len(bs) THEN bs[i] ELSE 0
urlsafe_b64encode(bs) ==
  [k \in 1..(4 * ((Len(bs) + 2) \div 3)) |->
     LET g == 3 * ((k - 1) \div 4)
         b1 == Byte(bs, g + 1)
         b2 == Byte(bs, g + 2)
         b3 == Byte(bs, g + 3)
     IN IF (k - 1) % 4 = 0 THEN B64Char(b1 \div 4)
        ELSE IF (k - 1) % 4 = 1 THEN B64Char((b1 % 4) * 16 + b2 \div 16)
        ELSE IF (k - 1) % 4 = 2
        THEN IF g + 2 > Len(bs) THEN "=" ELSE B64Char((b2 % 16) * 4 + b3 \div 64)
        ELSE IF g + 3 > Len(bs) THEN "=" ELSE B64Char(b3 % 64)]

\* The value of a character: "-" and "_" are translated to "+" and "/", which
\* are read as well; 64 for a character outside the alphabet.
B64Value(c) ==
  IF \E i \in 1..64 : B64Alphabet[i] = c
  THEN (CHOOSE i \in 1..64 : B64Alphabet[i] = c) - 1
  ELSE IF c = "+" THEN 62
  ELSE IF c = "/" THEN 63
  ELSE 64
IsB64Data(c) == B64Value(c) < 64

\* binascii.a2b_base64 without strict mode, as b64decode calls it.  A character
\* outside the alphabet is skipped.  The data ends at the "=" that completes the
\* padding of a group of three characters, or of a group of two when another
\* "=" came since the last data character; no other "=" counts.  Data that
\* ends inside a group is an error (binascii.Error).
DataBefore(s, i) == Len(SelectSeq(SubSeq(s, 1, i - 1), IsB64Data))
PaddingEnds(s, i) ==
  /\ s[i] = "="
  /\ \/ DataBefore(s, i) % 4 = 3
     \/ /\ DataBefore(s, i) % 4 = 2
        /\ \E j \in 1..(i - 1) : s[j] = "=" /\ DataBefore(s, j) = DataBefore(s, i)
B64Bytes(values) ==
  [k \in 1..((Len(values) * 6) \div 8) |->
     LET g == 4 * ((k - 1) \div 3)
     IN IF (k - 1) % 3 = 0 THEN values[g + 1] * 4 + values[g + 2] \div 16
        ELSE IF (k - 1) % 3 = 1 THEN (values[g + 2] % 16) * 16 + values[g + 3] \div 4
        ELSE (values[g + 3] % 4) * 64 + values[g + 4]]
urlsafe_b64decode(s) ==
  LET ends == {i \in 1..Len(s) : PaddingEnds(s, i)}
      stop == IF ends = {} THEN Len(s) + 1
              ELSE CHOOSE i \in ends : \A j \in ends : i <= j
      data == SelectSeq(SubSeq(s, 1, stop - 1), IsB64Data)
  IN IF ends = {} /\ Len(data) % 4 # 0
     THEN Raise("binascii.Error")
     ELSE Return(B64Bytes([i \in 1..Len(data) |-> B64Value(data[i])]))

------------------------------------------------------------------------------
\* The names the program reads and writes in the configuration

K_applications == <<"a", "p", "p", "l", "i", "c", "a", "t", "i", "o", "n", "s">>
K_routes == <<"r", "o", "u", "t", "e", "s">>
K_match == <<"m", "a", "t", "c", "h">>
K_arguments == <<"a", "r", "g", "u", "m", "e", "n", "t", "s">>
K_impossible == <<"i", "m", "p", "o", "s", "s", "i", "b", "l", "e">>
K_action == <<"a", "c", "t", "i", "o", "n">>
K_return == <<"r", "e", "t", "u", "r", "n">>
K_location == <<"l", "o", "c", "a", "t", "i", "o", "n">>
K_main == <<"m", "a", "i", "n">>
K_pass == <<"p", "a", "s", "s">>
K_proxy == <<"p", "r", "o", "x", "y">>
K_disabled_applications ==
  <<"d", "i", "s", "a", "b", "l", "e", "d", "-", "a", "p", "p", "l", "i", "c", "a",
    "t", "i", "o", "n", "s">>

FAKE_URL_PREFIX ==
  <<"h", "t", "t", "p", "s", ":", "/", "/", "l", "o", "c", "a", "l", "h", "o", "s", "t",
    ":", "5", "9", "9", "9", "9", "/", "n", "u", "r", "i", "-", "d", "a", "t", "a", "/">>
FAKE_PROXY_PREFIX ==
  <<"h", "t", "t", "p", ":", "/", "/", "u", "n", "i", "x", ":", "/", "f", "a", "k", "e",
    "-", "s", "o", "c", "k", "e", "t", "/">>

\* f"applications/{app_name}" and f"{FAKE_PROXY_PREFIX}disabled-app-ref/{app_name}"
PassTarget(app_name) ==
  <<"a", "p", "p", "l", "i", "c", "a", "t", "i", "o", "n", "s", "/">> \o app_name
DisabledRef(app_name) ==
  FAKE_PROXY_PREFIX
  \o <<"d", "i", "s", "a", "b", "l", "e", "d", "-", "a", "p", "p", "-", "r", "e", "f", "/">>
  \o app_name

\* The redirect status of the data step and the bytes os.urandom is asked for.
REDIRECT_STATUS == 302
URANDOM_SIZE == 64

------------------------------------------------------------------------------
\* The sidecar data step

\* create_data_step: random_bytes is what os.urandom(64) returned.
create_data_step(data, random_bytes) ==
  Dict(<<
    KV(K_match, Dict(<<
      KV(K_arguments, Dict(<<
        KV(K_impossible, Str(urlsafe_b64encode(random_bytes))) >>)) >>)),
    KV(K_action, Dict(<<
      KV(K_return, Num(REDIRECT_STATUS)),
      KV(K_location,
         Str(FAKE_URL_PREFIX \o urlsafe_b64encode(encode_ascii(json_dumps(data))))) >>))
  >>)

\* ('action' in step) and step['action'].get('location', '').startswith(FAKE_URL_PREFIX)
IsDataStep(step) ==
  /\ IsDict(step)
  /\ Has(step, K_action)
  /\ IsDict(Get(step, K_action, None))
  /\ IsStr(Get(Get(step, K_action, None), K_location, Str(<<>>)))
  /\ startswith(Get(Get(step, K_action, None), K_location, Str(<<>>)).str,
                FAKE_URL_PREFIX)

\* A route of the configuration is named by its path: config['routes'] itself
\* when that is a list, config['routes'][name] when it is a dict.
RouteRef(path) == [path |-> path]
RouteRefs(config) ==
  IF ~Has(config, K_routes) THEN <<>>
  ELSE IF IsList(Get(config, K_routes, None)) THEN <<RouteRef(<<K_routes>>)>>
  ELSE [i \in 1..Len(Get(config, K_routes, None).dict) |->
          RouteRef(<<K_routes, Get(config, K_routes, None).dict[i].k>>)]
RouteSteps(config, route) ==
  IF Len(route.path) = 1 THEN Get(config, K_routes, None).list
  ELSE Get(Get(config, K_routes, None), route.path[2], None).list
WithRouteSteps(config, route, steps) ==
  IF Len(route.path) = 1 THEN SetItem(config, K_routes, List(steps))
  ELSE SetItem(config, K_routes,
               SetItem(Get(config, K_routes, None), route.path[2], List(steps)))

\* The indexes (from 0) of the data steps of a route.
DataStepIndexes(config, route) ==
  {i \in 0..(Len(RouteSteps(config, route)) - 1) :
     IsDataStep(RouteSteps(config, route)[i + 1])}

\* locate_data_step: the first route, in order, that holds a data step, and the
\* first index of one in it; (None, None) without routes or without a data step.
NotLocated == [route |-> None, index |-> None]
locate_data_step(config) ==
  LET refs == RouteRefs(config)
      hits == {r \in 1..Len(refs) : DataStepIndexes(config, refs[r]) # {}}
  IN IF hits = {} THEN NotLocated
     ELSE LET r == CHOOSE x \in hits : \A y \in hits : x <= y
              found == DataStepIndexes(config, refs[r])
          IN [route |-> refs[r],
              index |-> CHOOSE i \in found : \A j \in found : i <= j]

\* retrieve_data_step: [value |-> data] or [raised |-> exception]
retrieve_data_step(config) ==
  LET at == locate_data_step(config)
  IN IF IsNone(at.route) THEN Return(Dict(<<>>))
     ELSE LET step == RouteSteps(config, at.route)[at.index + 1]
              location == Get(Get(step, K_action, None), K_location, None).str
              raw_data == SliceFrom(location, Len(FAKE_URL_PREFIX))
              decoded == urlsafe_b64decode(raw_data)
          IN IF Raised(decoded) THEN decoded ELSE json_loads(decoded.value)

\* is_data_empty: every value is an empty list or an empty dict.
is_data_empty(data) ==
  \A i \in 1..Len(data.dict) :
    \/ IsList(data.dict[i].v) /\ Len(data.dict[i].v.list) = 0
    \/ IsDict(data.dict[i].v) /\ Len(data.dict[i].v.dict) = 0

\* store_data_step's last lines: with no data step in the configuration, the
\* step goes first into config['routes'] (made a list when missing), or first
\* into the first route of a dict of routes (a route "main" when it has none).
\* A faulty variant of InsertInto, for comparison: the step is appended.
InsertIntoLast(storage, step) ==
  IF IsDict(storage)
  THEN IF Len(storage.dict) = 0
       THEN SetItem(storage, K_main, List(<<step>>))
       ELSE SetItem(storage, storage.dict[1].k,
                    List(Append(storage.dict[1].v.list, step)))
  ELSE List(Append(storage.list, step))
InsertInto(storage, step) ==
  IF IsDict(storage)
  THEN IF Len(storage.dict) = 0
       THEN SetItem(storage, K_main, List(<<step>>))
       ELSE SetItem(storage, storage.dict[1].k,
                    List(InsertFirst(storage.dict[1].v.list, step)))
  ELSE List(InsertFirst(storage.list, step))
InsertDataStep(config, step) ==
  SetItem(config, K_routes, InsertInto(Get(config, K_routes, List(<<>>)), step))

\* store_data_step's first lines, at = locate_data_step(mut_config): the data
\* step is popped when the data is empty, and replaced when it is not.
\* A faulty variant of ReplaceDataStep, for comparison: the data step that is
\* there is kept when the data is not empty.
ReplaceDataStepKeepsOld(mut_config, data, step, at) ==
  IF is_data_empty(data)
  THEN WithRouteSteps(mut_config, at.route,
         PopAt(RouteSteps(mut_config, at.route), at.index + 1))
  ELSE mut_config
ReplaceDataStep(mut_config, data, step, at) ==
  IF is_data_empty(data)
  THEN WithRouteSteps(mut_config, at.route,
         PopAt(RouteSteps(mut_config, at.route), at.index + 1))
  ELSE WithRouteSteps(mut_config, at.route,
         ReplaceAt(RouteSteps(mut_config, at.route), at.index + 1, step))

\* store_data_step: the configuration it leaves.
\* A faulty variant of StoreStep, for comparison: the step is inserted whether
\* or not one is there.
StoreStepAlwaysInserts(mut_config, data, step, at) ==
  InsertDataStep(mut_config, step)
StoreStep(mut_config, data, step, at) ==
  IF ~IsNone(at.route) THEN ReplaceDataStep(mut_config, data, step, at)
  ELSE InsertDataStep(mut_config, step)
store_data_step(mut_config, data, random_bytes) ==
  StoreStep(mut_config, data, create_data_step(data, random_bytes),
            locate_data_step(mut_config))

------------------------------------------------------------------------------
\* json_search_replace

\* The callbacks the program passes, as data: fn names the function, app_name
\* is the variable it closes over.
DisableCallback(app_name) == [fn |-> "disable._replace", app_name |-> app_name]
ReenableCallback(app_name) == [fn |-> "reenable._replace", app_name |-> app_name]

\* dict((k, v) if k != old_key else (new_key, new_value) for k, v in value.items())
Rekeyed(value, old_key, new_key, new_value) ==
  FromPairs([i \in 1..Len(value.dict) |->
               IF value.dict[i].k # old_key THEN value.dict[i]
               ELSE KV(new_key, new_value)])

\* _replace of execute_disable_app_command
disable_replace(app_name, value) ==
  IF IsDict(value) /\ Get(value, K_pass, None) = Str(PassTarget(app_name))
  THEN Rekeyed(value, K_pass, K_proxy, Str(DisabledRef(app_name)))
  ELSE value

\* _replace of execute_reenable_app_command; a proxy that is no string has no
\* startswith (ProxyNotString: the AttributeError it raises).
reenable_replace(app_name, value) ==
  IF /\ IsDict(value)
     /\ IsStr(Get(value, K_proxy, Str(<<>>)))
     /\ startswith(Get(value, K_proxy, Str(<<>>)).str, DisabledRef(app_name))
  THEN Rekeyed(value, K_proxy, K_pass, Str(PassTarget(app_name)))
  ELSE value

Call(callback, value, path) ==
  IF callback.fn = "disable._replace" THEN disable_replace(callback.app_name, value)
  ELSE IF callback.fn = "reenable._replace"
  THEN reenable_replace(callback.app_name, value)
  ELSE value

IsContainer(x) == IsList(x) \/ IsDict(x)

RECURSIVE json_search_replace_rec(_, _, _, _)
json_search_replace_rec(data, path, callback, head_first) ==
  LET head == IF head_first /\ IsContainer(data) THEN Call(callback, data, path)
              ELSE data
      body == IF IsList(head)
              THEN List([i \in 1..Len(head.list) |->
                     json_search_replace_rec(head.list[i], Append(path, [index |-> i - 1]),
                                             callback, head_first)])
              ELSE IF IsDict(head)
              THEN Dict([i \in 1..Len(head.dict) |->
                     KV(head.dict[i].k,
                        json_search_replace_rec(head.dict[i].v,
                                                Append(path, [key |-> head.dict[i].k]),
                                                callback, head_first))])
              ELSE Call(callback, head, path)
  IN IF ~head_first /\ IsContainer(body) THEN Call(callback, body, path) ELSE body

json_search_replace(data, callback, head_first) ==
  json_search_replace_rec(data, <<>>, callback, head_first)

\* Some dict of the value has a proxy that is no string.
RECURSIVE ProxyNotString(_)
ProxyNotString(x) ==
  IF IsDict(x)
  THEN \/ Has(x, K_proxy) /\ ~IsStr(Get(x, K_proxy, None))
       \/ \E i \in 1..Len(x.dict) : ProxyNotString(x.dict[i].v)
  ELSE IF IsList(x) THEN \E i \in 1..Len(x.list) : ProxyNotString(x.list[i])
  ELSE FALSE

------------------------------------------------------------------------------
\* The commands.  A run of a command ends in
\*   [outcome |-> "success" | "fail" | "exception", why, config, stored, put]
\* config is the document in memory when it ended, stored the document in
\* memory when store_data_step returned (None when it was not reached), put the
\* bodies of the PUT requests it sent.  Unit is taken to accept what is PUT and to return it to
\* the next GET.

Ended(outcome, why, config, put) ==
  [outcome |-> outcome, why |-> why, config |-> config, stored |-> None, put |-> put]
Sent(stored, config) ==
  [outcome |-> "success", why |-> "", config |-> config, stored |-> stored,
   put |-> <<config>>]

\* execute_disable_app_command, lines 346-358: stored is the document
\* store_data_step left.
DisableStored(stored, app_name) ==
  Sent(stored, json_search_replace(stored, DisableCallback(app_name), TRUE))

\* lines 339-344: data is what retrieve_data_step returned, config the fetched
\* document without the application.
DisableWith(config, data, app_name, app_config, random_bytes) ==
  IF ~IsDict(Get(data, K_disabled_applications, None))
  THEN Ended("exception", "TypeError", config, <<>>)
  ELSE DisableStored(
         store_data_step(
           config,
           SetItem(data, K_disabled_applications,
                   SetItem(Get(data, K_disabled_applications, None),
                           app_name, app_config)),
           random_bytes),
         app_name)

\* lines 337-340, retrieved = retrieve_data_step(config)
DisableRetrieved(config, retrieved, app_name, app_config, random_bytes) ==
  IF Raised(retrieved) THEN Ended("exception", retrieved.raised, config, <<>>)
  ELSE IF ~IsDict(retrieved.value) THEN Ended("exception", "TypeError", config, <<>>)
  ELSE DisableWith(config,
                   IF Has(retrieved.value, K_disabled_applications)
                   THEN retrieved.value
                   ELSE SetItem(retrieved.value, K_disabled_applications, Dict(<<>>)),
                   app_name, app_config, random_bytes)

\* lines 333-337, popped = the fetched document after applications.pop(app_name)
DisablePopped(popped, app_name, app_config, random_bytes) ==
  IF IsNone(app_config)
  THEN Ended("fail", "Found no active application", popped, <<>>)
  ELSE DisableRetrieved(popped, retrieve_data_step(popped), app_name, app_config,
                        random_bytes)

\* A faulty variant of execute_disable_app_command, for comparison:
\* applications.get for applications.pop.
execute_disable_app_command_get(fetched, app_name, random_bytes) ==
  IF ~Has(fetched, K_applications)
  THEN Ended("exception", "KeyError", fetched, <<>>)
  ELSE DisablePopped(fetched, app_name,
                     Get(Get(fetched, K_applications, None), app_name, None),
                     random_bytes)

\* execute_disable_app_command on the fetched configuration
execute_disable_app_command(fetched, app_name, random_bytes) ==
  IF ~Has(fetched, K_applications)
  THEN Ended("exception", "KeyError", fetched, <<>>)
  ELSE DisablePopped(
         SetItem(fetched, K_applications,
                 Without(Get(fetched, K_applications, None), app_name)),
         app_name,
         Get(Get(fetched, K_applications, None), app_name, None),
         random_bytes)

\* execute_reenable_app_command, line 388: config['applications'][app_name] = app_config
Enabled(replaced, app_name, app_config) ==
  SetItem(replaced, K_applications,
          SetItem(Get(replaced, K_applications, None), app_name, app_config))

\* lines 377-391: stored is the document store_data_step left.
ReenableStored(stored, app_name, app_config) ==
  IF ProxyNotString(stored)
  THEN Ended("exception", "AttributeError", stored, <<>>)
  ELSE Sent(stored,
            Enabled(json_search_replace(stored, ReenableCallback(app_name), TRUE),
                    app_name, app_config))

\* A faulty variant of ReenableWith, for comparison: the data is stored before
\* the snapshot is looked for.
ReenableWithLateCheck(fetched, data, disabled, app_name, random_bytes) ==
  IF ~IsDict(disabled) THEN Ended("exception", "TypeError", fetched, <<>>)
  ELSE IF IsNone(Get(disabled, app_name, None))
  THEN Ended("fail", "Found no disabled app",
             store_data_step(fetched, data, random_bytes), <<>>)
  ELSE ReenableStored(
         store_data_step(fetched,
                         SetItem(data, K_disabled_applications,
                                 Without(disabled, app_name)),
                         random_bytes),
         app_name, Get(disabled, app_name, None))

\* lines 371-375, data = what retrieve_data_step returned, a dict
ReenableWith(fetched, data, disabled, app_name, random_bytes) ==
  IF ~IsDict(disabled) THEN Ended("exception", "TypeError", fetched, <<>>)
  ELSE IF IsNone(Get(disabled, app_name, None))
  THEN Ended("fail", "Found no disabled app", fetched, <<>>)
  ELSE ReenableStored(
         store_data_step(fetched,
                         SetItem(data, K_disabled_applications,
                                 Without(disabled, app_name)),
                         random_bytes),
         app_name, Get(disabled, app_name, None))

\* lines 369-371, retrieved = retrieve_data_step(config)
ReenableRetrieved(fetched, retrieved, app_name, random_bytes) ==
  IF Raised(retrieved) THEN Ended("exception", retrieved.raised, fetched, <<>>)
  ELSE IF ~IsDict(retrieved.value)
  THEN Ended("exception", "AttributeError", fetched, <<>>)
  ELSE ReenableWith(fetched, retrieved.value,
                    Get(retrieved.value, K_disabled_applications, Dict(<<>>)),
                    app_name, random_bytes)

\* execute_reenable_app_command on the fetched configuration
execute_reenable_app_command(fetched, app_name, random_bytes) ==
  IF ~Has(fetched, K_applications)
  THEN Ended("exception", "KeyError", fetched, <<>>)
  ELSE IF Has(Get(fetched, K_applications, None), app_name)
  THEN Ended("fail", "seems to be already enabled", fetched, <<>>)
  ELSE ReenableRetrieved(fetched, retrieve_data_step(fetched), app_name, random_bytes)

------------------------------------------------------------------------------
\* The configurations and the inputs of the model

S_type == <<"t", "y", "p", "e">>
S_php == <<"p", "h", "p">>
S_python == <<"p", "y", "t", "h", "o", "n">>
S_processes == <<"p", "r", "o", "c", "e", "s", "s", "e", "s">>
S_environment == <<"e", "n", "v", "i", "r", "o", "n", "m", "e", "n", "t">>
S_listeners == <<"l", "i", "s", "t", "e", "n", "e", "r", "s">>
S_port80 == <<"*", ":", "8", "0">>
S_uri == <<"u", "r", "i">>
S_rewrite == <<"r", "e", "w", "r", "i", "t", "e">>
S_share == <<"s", "h", "a", "r", "e">>
S_www == <<"/", "w", "w", "w">>
S_r2 == <<"r", "2">>
S_note == <<"n", "o", "t", "e">>

\* The application names of the commands: the first is a prefix of the second.
App_a == <<"a">>
App_ab == <<"a", "b">>
App_proxy == K_proxy
AppNames == {App_a, App_ab}

\* What os.urandom(URANDOM_SIZE) may return: one of two byte strings.
Entropy == {[i \in 1..URANDOM_SIZE |-> 0], [i \in 1..URANDOM_SIZE |-> 167]}

Config_a == Dict(<<KV(S_type, Str(S_php))>>)
Config_ab == Dict(<<KV(S_type, Str(S_python)), KV(S_processes, Num(2))>>)
\* An application whose environment names a variable "pass".
Config_env ==
  Dict(<<KV(S_type, Str(S_php)),
         KV(S_environment, Dict(<<KV(K_pass, Str(PassTarget(App_a)))>>))>>)

PassStep(app_name) ==
  Dict(<<KV(K_action, Dict(<<KV(K_pass, Str(PassTarget(app_name)))>>))>>)
RewritePassStep(app_name) ==
  Dict(<<KV(K_match, Dict(<<KV(S_uri, Str(<<"/">> \o app_name))>>)),
         KV(K_action, Dict(<<KV(S_rewrite, Str(<<"/">>)),
                             KV(K_pass, Str(PassTarget(app_name))),
                             KV(K_return, Num(200))>>))>>)
ProxyStep(app_name) ==
  Dict(<<KV(K_action, Dict(<<KV(K_proxy, Str(DisabledRef(app_name)))>>))>>)
ShareStep == Dict(<<KV(K_action, Dict(<<KV(S_share, Str(S_www))>>))>>)
Listener(target) == Dict(<<KV(S_port80, Dict(<<KV(K_pass, Str(target))>>))>>)
BothApps == Dict(<<KV(App_a, Config_a), KV(App_ab, Config_ab)>>)

\* routes is a list
DocList ==
  Dict(<<KV(S_listeners, Listener(K_routes)),
         KV(K_applications, BothApps),
         KV(K_routes, List(<<RewritePassStep(App_a), PassStep(App_ab), ShareStep>>))>>)
\* routes is a dict of two named routes
DocNamed ==
  Dict(<<KV(K_applications, BothApps),
         KV(K_routes, Dict(<<
           KV(K_main, List(<<PassStep(App_a), PassStep(App_ab)>>)),
           KV(S_r2, List(<<PassStep(App_ab), ShareStep>>))>>))>>)
\* no routes at all: the listener passes to the application
DocNoRoutes ==
  Dict(<<KV(S_listeners, Listener(PassTarget(App_a))),
         KV(K_applications, BothApps)>>)
\* routes is a dict without routes
DocEmptyNamed ==
  Dict(<<KV(S_listeners, Listener(PassTarget(App_ab))),
         KV(K_applications, BothApps),
         KV(K_routes, Dict(<<>>))>>)
\* a step matches the query arguments "pass" and "proxy"
ArgumentsStep ==
  Dict(<<KV(K_match, Dict(<<KV(K_arguments,
           Dict(<<KV(K_pass, Str(PassTarget(App_a))), KV(K_proxy, Str(S_www))>>))>>)),
         KV(K_action, Dict(<<KV(K_pass, Str(PassTarget(App_ab)))>>))>>)
DocArguments ==
  Dict(<<KV(K_applications, BothApps),
         KV(K_routes, List(<<ArgumentsStep, PassStep(App_a)>>))>>)
\* an application's environment holds "pass"
DocEnv ==
  Dict(<<KV(K_applications, Dict(<<KV(App_a, Config_a), KV(App_ab, Config_env)>>)),
         KV(K_routes, List(<<PassStep(App_a)>>))>>)
\* an application is named "proxy"
DocProxyApp ==
  Dict(<<KV(K_applications, Dict(<<KV(App_a, Config_a), KV(App_proxy, Config_ab)>>)),
         KV(K_routes, List(<<PassStep(App_a)>>))>>)
\* routes is an empty list; the first of two named routes is empty
DocEmptyList ==
  Dict(<<KV(K_applications, BothApps), KV(K_routes, List(<<>>))>>)
DocFirstEmpty ==
  Dict(<<KV(K_applications, BothApps),
         KV(K_routes, Dict(<<KV(S_r2, List(<<>>)),
                             KV(K_main, List(<<PassStep(App_a)>>))>>))>>)

\* A data step whose location carries the given text after the prefix.
StepWithPayload(text) ==
  Dict(<<KV(K_match, Dict(<<KV(K_arguments, Dict(<<
           KV(K_impossible, Str(urlsafe_b64encode([i \in 1..URANDOM_SIZE |-> 1])))>>))>>)),
         KV(K_action, Dict(<<KV(K_return, Num(REDIRECT_STATUS)),
                             KV(K_location, Str(FAKE_URL_PREFIX \o text))>>))>>)

\* Configurations whose data step was damaged outside the program.  The data
\* step held the snapshot of the disabled application "ab".
SidecarOf_ab ==
  Dict(<<KV(K_disabled_applications, Dict(<<KV(App_ab, Config_ab)>>))>>)
PayloadOf_ab == urlsafe_b64encode(encode_ascii(json_dumps(SidecarOf_ab)))
DamagedDoc(text) ==
  Dict(<<KV(K_applications, Dict(<<KV(App_a, Config_a)>>)),
         KV(K_routes, List(<<StepWithPayload(text), PassStep(App_a),
                             ProxyStep(App_ab)>>))>>)
\* the data step is there twice
DocTwoSteps ==
  Dict(<<KV(K_applications, Dict(<<KV(App_a, Config_a)>>)),
         KV(K_routes, List(<<StepWithPayload(PayloadOf_ab), StepWithPayload(PayloadOf_ab),
                             ProxyStep(App_ab)>>))>>)
\* a space got into the payload
DocStray ==
  DamagedDoc(SubSeq(PayloadOf_ab, 1, 8) \o <<" ">>
             \o SubSeq(PayloadOf_ab, 9, Len(PayloadOf_ab)))
\* the payload lost its last character
DocTruncated == DamagedDoc(SubSeq(PayloadOf_ab, 1, Len(PayloadOf_ab) - 1))
\* the payload is the base64 of half of the JSON text
DocBadJson ==
  DamagedDoc(urlsafe_b64encode(encode_ascii(
    SubSeq(json_dumps(SidecarOf_ab), 1, Len(json_dumps(SidecarOf_ab)) \div 2))))

Documents ==
  {DocList, DocNamed, DocNoRoutes, DocEmptyNamed, DocEnv, DocArguments, DocProxyApp,
   DocTwoSteps, DocStray, DocTruncated, DocBadJson}
CleanDocuments ==
  {DocList, DocNamed, DocNoRoutes, DocEmptyNamed, DocEmptyList, DocFirstEmpty}

\* The data store_data_step is called with.
Payloads ==
  { Dict(<<>>),
    Dict(<<KV(<<"x">>, List(<<>>)), KV(<<"y">>, Dict(<<>>))>>),
    Dict(<<KV(S_note, Str(S_www))>>),
    Dict(<<KV(<<"x">>, List(<<>>)), KV(<<"n">>, Num(10))>>),
    Dict(<<KV(K_disabled_applications, Dict(<<KV(App_a, Config_a)>>))>>) }

------------------------------------------------------------------------------
\* The state machine

VARIABLES
  config,   \* Unit's configuration: what GET config/ returns
  initial,  \* the configuration at the start
  last,     \* the last operation: its input and how it ended
  prev,     \* the operation before it
  count     \* the operations done

vars == <<config, initial, last, prev, count>>

NoOperation == [op |-> "none"]

Init ==
  /\ config \in Documents
  /\ initial = config
  /\ last = NoOperation
  /\ prev = NoOperation
  /\ count = 0

StoreInit ==
  /\ config \in CleanDocuments
  /\ initial = config
  /\ last = NoOperation
  /\ prev = NoOperation
  /\ count = 0

\* One run of a command: GET, the command, and the PUT when it sends one.
\* last keeps the fetched document, how the run ended, the number of PUT
\* requests, the document store_data_step left, and the document in memory at
\* the end when that was not PUT (when it was, it is the new config).
Command(op, app_name, run) ==
  /\ config' = IF run.put # <<>> THEN run.put[Len(run.put)] ELSE config
  /\ last' = [op |-> op, app_name |-> app_name, fetched |-> config,
              outcome |-> run.outcome, why |-> run.why,
              memory |-> IF run.put # <<>> THEN None ELSE run.config,
              stored |-> run.stored, puts |-> Len(run.put)]
  /\ prev' = IF last.op = "none" THEN last
             ELSE [op |-> last.op, app_name |-> last.app_name,
                   fetched |-> last.fetched, outcome |-> last.outcome]
  /\ count' = count + 1
  /\ UNCHANGED initial

DisableApp ==
  /\ count < MaxCommands
  /\ \E app_name \in AppNames, random_bytes \in Entropy :
       Command("disable", app_name,
               execute_disable_app_command(config, app_name, random_bytes))

ReenableApp ==
  /\ count < MaxCommands
  /\ \E app_name \in AppNames, random_bytes \in Entropy :
       Command("reenable", app_name,
               execute_reenable_app_command(config, app_name, random_bytes))

\* store_data_step on the configuration in hand
StoreData ==
  /\ count < MaxStores
  /\ \E data \in Payloads, random_bytes \in Entropy :
       /\ config' = store_data_step(config, data, random_bytes)
       /\ last' = [op |-> "store", data |-> data, fetched |-> config]
  /\ prev' = [op |-> last.op]
  /\ count' = count + 1
  /\ UNCHANGED initial

\* retrieve_data_step after a store
RetrieveData ==
  /\ last.op = "store"
  /\ last' = [op |-> "retrieve", result |-> retrieve_data_step(config)]
  /\ prev' = last
  /\ UNCHANGED <<config, initial, count>>

Next == DisableApp \/ ReenableApp
StoreNext == StoreData \/ RetrieveData

Spec == Init /\ [][Next]_vars
StoreSpec == StoreInit /\ [][StoreNext]_vars

------------------------------------------------------------------------------
\* What the properties speak of

Applications(doc) == Get(doc, K_applications, Dict(<<>>))

\* disabled-applications of the sidecar data ({} when there is none to read)
Disabled(doc) ==
  LET retrieved == retrieve_data_step(doc)
  IN  IF Raised(retrieved) \/ ~IsDict(retrieved.value)
      THEN Dict(<<>>)
      ELSE Get(retrieved.value, K_disabled_applications, Dict(<<>>))

\* Where the data steps are: <<position of the route, index in it>>.
DataStepPlaces(doc) ==
  UNION {{<<r, i>> : i \in DataStepIndexes(doc, RouteRefs(doc)[r])} :
           r \in 1..Len(RouteRefs(doc))}
NoDataStep(doc) == DataStepPlaces(doc) = {}

\* The routes with their steps other than data steps, in order.
IsOtherStep(step) == ~IsDataStep(step)
OtherSteps(doc) ==
  [r \in 1..Len(RouteRefs(doc)) |->
     [route |-> RouteRefs(doc)[r],
      steps |-> SelectSeq(RouteSteps(doc, RouteRefs(doc)[r]), IsOtherStep)]]

\* How many dicts of x hold key with the string text.
RECURSIVE CountWhere(_, _, _)
CountWhere(x, key, text) ==
  IF IsDict(x)
  THEN LET Sum[i \in 0..Len(x.dict)] ==
             IF i = 0 THEN 0 ELSE Sum[i - 1] + CountWhere(x.dict[i].v, key, text)
       IN Sum[Len(x.dict)] + (IF Get(x, key, None) = Str(text) THEN 1 ELSE 0)
  ELSE IF IsList(x)
  THEN LET Sum[i \in 0..Len(x.list)] ==
             IF i = 0 THEN 0 ELSE Sum[i - 1] + CountWhere(x.list[i], key, text)
       IN Sum[Len(x.list)]
  ELSE 0

\* Some dict of x holds a pass or a proxy key.
RECURSIVE HoldsReference(_)
HoldsReference(x) ==
  IF IsDict(x)
  THEN \/ Has(x, K_pass) \/ Has(x, K_proxy)
       \/ \E i \in 1..Len(x.dict) : HoldsReference(x.dict[i].v)
  ELSE IF IsList(x) THEN \E i \in 1..Len(x.list) : HoldsReference(x.list[i])
  ELSE FALSE

IsCommand(operation) == operation.op \in {"disable", "reenable"}
Succeeded(operation) == IsCommand(operation) /\ operation.outcome = "success"

------------------------------------------------------------------------------
\* C2, emptiness pruning: after store_data_step with data that is empty (no
\* keys, or only empty lists and dicts as values) the configuration holds no
\* data step: locate_data_step returns (None, None).
EmptinessPruning ==
  (last.op = "store" /\ is_data_empty(last.data))
    => IsNone(locate_data_step(config).route)

\* C5, at most one data step: starting without a data step, after any sequence
\* of store_data_step calls the routes hold at most one step whose
\* action.location starts with FAKE_URL_PREFIX.
AtMostOneDataStep == Cardinality(DataStepPlaces(config)) <= 1

\* A store replaced the one data step by another.
AtMostOneDataStepWitness ==
  /\ last.op = "store"
  /\ ~is_data_empty(last.data)
  /\ Cardinality(DataStepPlaces(last.fetched)) = 1
  /\ Cardinality(DataStepPlaces(config)) = 1
  /\ config # last.fetched

\* C6, sidecar round trip: retrieve_data_step after store_data_step(config, d)
\* returns a mapping deep-equal to d, when the configuration held no data step
\* before the store (any d) and when d is not empty (any configuration).
SidecarRoundTrip ==
  (/\ last.op = "retrieve"
   /\ NoDataStep(prev.fetched) \/ ~is_data_empty(prev.data))
    => /\ ~Raised(last.result)
       /\ DeepEq(last.result.value, prev.data)

\* The data of a second store, with a snapshot in it, was read back.
SidecarRoundTripWitness ==
  /\ last.op = "retrieve"
  /\ ~NoDataStep(prev.fetched)
  /\ Has(prev.data, K_disabled_applications)
  /\ ~Raised(retrieve_data_step(prev.fetched))
  /\ retrieve_data_step(prev.fetched).value # prev.data
  /\ last.result = Return(prev.data)

\* The route the data step goes to, from the configuration at the start.
ExpectedRoute(doc) ==
  IF ~Has(doc, K_routes) \/ IsList(Get(doc, K_routes, None))
  THEN RouteRef(<<K_routes>>)
  ELSE IF Len(Get(doc, K_routes, None).dict) = 0
  THEN RouteRef(<<K_routes, K_main>>)
  ELSE RouteRef(<<K_routes, Get(doc, K_routes, None).dict[1].k>>)

\* C9, placement: starting without a data step, after any sequence of
\* store_data_step calls a data step is at index 0 of its route; the route is
\* routes itself when routes is a list (made an empty list when the key was
\* missing), the first named route of a dict of routes, "main" when the dict
\* was empty; replacing the data step keeps its route and index and leaves the
\* other steps in their order.
DataStepPlacement ==
  /\ ~IsNone(locate_data_step(config).route)
       => /\ locate_data_step(config).index = 0
          /\ locate_data_step(config).route = ExpectedRoute(initial)
  /\ (~Has(initial, K_routes) /\ Has(config, K_routes))
       => IsList(Get(config, K_routes, None))
  /\ (last.op = "store" /\ ~NoDataStep(last.fetched) /\ ~is_data_empty(last.data))
       => /\ locate_data_step(config) = locate_data_step(last.fetched)
          /\ OtherSteps(config) = OtherSteps(last.fetched)

\* The data step of the seeded route "main" was replaced.
DataStepPlacementWitness ==
  /\ initial = DocEmptyNamed
  /\ last.op = "store"
  /\ ~NoDataStep(last.fetched)
  /\ ~is_data_empty(last.data)
  /\ locate_data_step(config) = [route |-> RouteRef(<<K_routes, K_main>>), index |-> 0]

------------------------------------------------------------------------------
\* The commands

\* Some step has exactly the action {"pass": "applications/<app_name>"}.
HasPassStep(doc, app_name) ==
  \E r \in 1..Len(RouteRefs(doc)) :
    \E i \in 1..Len(RouteSteps(doc, RouteRefs(doc)[r])) :
      Get(RouteSteps(doc, RouteRefs(doc)[r])[i], K_action, None)
        = Dict(<<KV(K_pass, Str(PassTarget(app_name)))>>)

\* C1, disable / re-enable inverse law: on a document that has
\* applications[n], no data step and a step whose action is
\* {"pass": "applications/n"}, Disable(n) and then Re-enable(n) persist a
\* document deep-equal to the original.
InverseLaw ==
  (/\ last.op = "reenable"
   /\ prev.op = "disable"
   /\ prev.outcome = "success"
   /\ prev.app_name = last.app_name
   /\ Has(Applications(prev.fetched), last.app_name)
   /\ NoDataStep(prev.fetched)
   /\ HasPassStep(prev.fetched, last.app_name))
    => /\ last.outcome = "success"
       /\ DeepEq(config, prev.fetched)

\* C3, disabled applications coexist: after Disable(a) and Disable(b) both
\* snapshots are under disabled-applications; Re-enable(a) then takes only a
\* out of them, restores applications[a] and the references to a, and leaves b
\* out of applications, b's snapshot in the sidecar data and every proxy
\* reference to b as it was.
BothSnapshotsStored ==
  (/\ last.op = "disable" /\ last.outcome = "success"
   /\ prev.op = "disable" /\ prev.outcome = "success"
   /\ prev.app_name # last.app_name
   /\ NoDataStep(initial))
    => /\ Get(Disabled(config), prev.app_name, None)
            = Get(Applications(prev.fetched), prev.app_name, None)
       /\ Get(Disabled(config), last.app_name, None)
            = Get(Applications(last.fetched), last.app_name, None)
OnlyOneReenabled ==
  \A b \in AppNames :
    (/\ last.op = "reenable" /\ last.outcome = "success"
     /\ b # last.app_name
     /\ Has(Disabled(last.fetched), b)
     /\ NoDataStep(initial))
      => /\ ~Has(Disabled(config), last.app_name)
         /\ Get(Applications(config), last.app_name, None)
              = Get(Disabled(last.fetched), last.app_name, None)
         /\ CountWhere(config, K_proxy, DisabledRef(last.app_name)) = 0
         /\ ~Has(Applications(config), b)
         /\ Get(Disabled(config), b, None) = Get(Disabled(last.fetched), b, None)
         /\ CountWhere(config, K_proxy, DisabledRef(b))
              = CountWhere(last.fetched, K_proxy, DisabledRef(b))
CoexistingDisabledApps == BothSnapshotsStored /\ OnlyOneReenabled

\* The three business failures, on the fetched document.
BusinessFailure(operation) ==
  \/ /\ operation.op = "disable"
     /\ ~Has(Applications(operation.fetched), operation.app_name)
  \/ /\ operation.op = "reenable"
     /\ Has(Applications(operation.fetched), operation.app_name)
  \/ /\ operation.op = "reenable"
     /\ ~Has(Applications(operation.fetched), operation.app_name)
     /\ ~Raised(retrieve_data_step(operation.fetched))
     /\ ~Has(Disabled(operation.fetched), operation.app_name)

\* C4, business failures: Disable(n) without applications[n], Re-enable(n) with
\* applications[n], and Re-enable(n) without disabled-applications[n] end in a
\* failure, send no PUT, and have not changed the fetched document in memory.
BusinessFailuresTouchNothing ==
  (IsCommand(last) /\ BusinessFailure(last))
    => /\ last.outcome = "fail"
       /\ last.puts = 0
       /\ last.memory = last.fetched
       /\ config = last.fetched

\* Re-enable found no snapshot of its application beside another one's.
BusinessFailuresWitness ==
  /\ last.op = "reenable"
  /\ last.why = "Found no disabled app"
  /\ ~NoDataStep(last.fetched)
  /\ prev.op = "disable"

\* x is y with the references to app_name rewritten: a dict whose pass is
\* "applications/<app_name>" has proxy and the disabled reference in the place
\* of pass, every other key and every other value is the same.
RECURSIVE Rewritten(_, _, _)
Rewritten(x, y, app_name) ==
  IF IsDict(x)
  THEN /\ IsDict(y)
       /\ Len(y.dict) = Len(x.dict)
       /\ \A i \in 1..Len(x.dict) :
            IF x.dict[i].k = K_pass /\ x.dict[i].v = Str(PassTarget(app_name))
            THEN y.dict[i] = KV(K_proxy, Str(DisabledRef(app_name)))
            ELSE /\ y.dict[i].k = x.dict[i].k
                 /\ Rewritten(x.dict[i].v, y.dict[i].v, app_name)
  ELSE IF IsList(x)
  THEN /\ IsList(y)
       /\ Len(y.list) = Len(x.list)
       /\ \A i \in 1..Len(x.list) : Rewritten(x.list[i], y.list[i], app_name)
  ELSE x = y

\* C7, exact rewriting: Disable(n) replaces pass by proxy, in place, in every mapping
\* whose pass was exactly "applications/n", leaves no such pass anywhere, and
\* leaves every other key, value and mapping unchanged.
ExactRewrite ==
  (last.op = "disable" /\ last.outcome = "success")
    => /\ Rewritten(last.stored, config, last.app_name)
       /\ CountWhere(config, K_pass, PassTarget(last.app_name)) = 0

\* The text after the prefix in the location of the data step.
PayloadText(doc) ==
  SliceFrom(
    Get(Get(RouteSteps(doc, locate_data_step(doc).route)[locate_data_step(doc).index + 1],
            K_action, None), K_location, None).str,
    Len(FAKE_URL_PREFIX))

\* URL-safe base64: groups of four characters of the alphabet, the last group
\* ending in at most two "=".
ValidBase64(text) ==
  /\ Len(text) % 4 = 0
  /\ \E pad \in 0..2 :
       /\ pad <= Len(text)
       /\ \A i \in 1..Len(text) :
            IF i > Len(text) - pad THEN text[i] = "="
            ELSE \E j \in 1..64 : B64Alphabet[j] = text[i]

\* The document holds a data step whose payload is not valid base64 or not
\* valid JSON.
Damaged(doc) ==
  /\ ~NoDataStep(doc)
  /\ \/ ~ValidBase64(PayloadText(doc))
     \/ Raised(json_loads(urlsafe_b64decode(PayloadText(doc)).value))

\* C8, sidecar corruption is fatal: on a document whose data step holds a
\* payload that is not valid base64 or not valid JSON, retrieve_data_step ends
\* in a decode error, and a Disable or Re-enable that comes to read it aborts
\* without a PUT, so that the data step is not overwritten.
CorruptionIsFatal ==
  (/\ IsCommand(last)
   /\ Damaged(last.fetched)
   /\ Has(Applications(last.fetched), last.app_name) <=> last.op = "disable")
    => /\ Raised(retrieve_data_step(last.fetched))
       /\ last.outcome = "exception"
       /\ last.puts = 0
       /\ config = last.fetched

\* The applications of a document, active and disabled.
Inventory(doc) == [active |-> Applications(doc), disabled |-> Disabled(doc)]
AppConfig(apps, app_name) ==
  IF Has(apps.active, app_name) THEN Get(apps.active, app_name, None)
  ELSE Get(apps.disabled, app_name, None)
AllApps(apps) == KeySet(apps.active) \cup KeySet(apps.disabled)
Disjoint(apps) == KeySet(apps.active) \cap KeySet(apps.disabled) = {}

\* What C10 starts from: a sidecar that can be read, no name both active and
\* disabled, no null configuration.
ConservationStart(doc) ==
  LET apps == Inventory(doc)
  IN  /\ ~Raised(retrieve_data_step(doc))
      /\ Disjoint(apps)
      /\ \A app_name \in AllApps(apps) : ~IsNone(AppConfig(apps, app_name))

Conserved ==
  LET now == Inventory(config)
      start == Inventory(initial)
  IN  /\ Disjoint(now)
      /\ AllApps(now) = AllApps(start)
      /\ \A app_name \in AllApps(start) :
           DeepEq(AppConfig(now, app_name), AppConfig(start, app_name))

\* C10 as claimed: after any sequence of Disable and Re-enable no application
\* is both active and disabled, the active and the disabled applications are
\* those of the start, and each has the configuration it had at the start.
ApplicationConservation == ConservationStart(initial) => Conserved

\* No dict of the applications, active or disabled, holds a pass or a proxy
\* key, and there is one data step at most.
WithoutReferences(doc) ==
  /\ ~HoldsReference(Applications(doc))
  /\ ~HoldsReference(Disabled(doc))
  /\ Cardinality(DataStepPlaces(doc)) <= 1

\* C10, amended: the same, starting from a document that has one data step at
\* most and in which no mapping of applications or of disabled-applications,
\* the two themselves included, has a pass or a proxy key.
ApplicationConservationWithoutReferences ==
  (ConservationStart(initial) /\ WithoutReferences(initial)) => Conserved

\* After three commands one application is disabled and the other was
\* re-enabled.
ApplicationConservationWitness ==
  /\ ConservationStart(initial)
  /\ WithoutReferences(initial)
  /\ last.op = "reenable"
  /\ last.outcome = "success"
  /\ KeySet(Disabled(config)) # {}
  /\ count = 3
====
